---------------------------- MODULE Spec2Model ----------------------------
(***************************************************************************)
(* Reading tracker of the Pocketbook highlights importer: the JSON store   *)
(* (ReadingDatabase), the progress classifier embedded in addSnapshot, the *)
(* streak update and the sync cycle (ReadingTracker.onSync).               *)
(*                                                                         *)
(* Time is an integer clock `now` (Date.now()).  A calendar day is         *)
(* TicksPerDay consecutive ticks, and the ISO date string of a timestamp   *)
(* (toISOString().split('T')[0]) is its day number, so that the string     *)
(* comparisons of the source are integer comparisons here.  The local      *)
(* calendar day before `now` is taken to be exactly one day earlier.       *)
(* Book titles and authors are copied verbatim by the store and never read *)
(* by it; the records here leave them out.                                 *)
(***************************************************************************)
EXTENDS Integers, Sequences, FiniteSets, TLC

(* ------------------------------ bounds -------------------------------- *)
TicksPerDay == 2
MaxTicks == 1
MaxDelivered == 2

(* --------------------------- JavaScript values ------------------------- *)
\* parseFloat of a string that is not a number
NaN == -1
\* JSON.stringify writes NaN as null
Null == -2
\* an optional field that is not set (progressDelta?, read_percent?)
Undefined == -3
\* lastReadDate: '' and lastSync: ''
EmptyString == -4
\* a book without mtime: occurredAt is undefined
NoMtime == -5
\* an mtime string that new Date() cannot parse
InvalidMtime == -6

Books == {"B1", "B2"}

(* The book objects a sync delivers: read_percent or, without it, the      *)
(* percent string; read_status; mtime, absent or a day before the sync.    *)
ReadPercents == {0, 35, 70}
ReadStatuses == {"reading", "read"}
Mtimes(t) == {NoMtime, t - TicksPerDay}
Observations(t) ==
    { [read_percent |-> rp, percent |-> "", read_status |-> st, mtime |-> m] :
        rp \in ReadPercents, st \in ReadStatuses, m \in Mtimes(t) }

\* the orders in which a sync delivers one or two books
Batches == { <<b>> : b \in Books }
             \cup { s \in { <<a, b>> : a \in Books, b \in Books } : s[1] # s[2] }

\* this.data and this.loaded of the ReadingDatabase; the module-level
\* DEFAULT_DATA object as it is now (defaults) and the fields of this.data
\* that are the very arrays and object of DEFAULT_DATA (shared); the data
\* file of the vault (disk); Date.now(); the position and the locals of
\* the running onSync; the number of books delivered so far; the last call
\* of a read-side operation with its arguments and the value it returned;
\* the position and the locals of a second onSync that runs while the
\* first does, with the batch the two were called with and the store as
\* it was when they began; the PrefetchService: its queue, isProcessing,
\* processedCache, and the processQueue loops that are at an await, each
\* with the item it took from the queue
VARIABLES data, loaded, defaults, shared, disk, now,
          syncPc, syncBooks, syncActs, hasReadToday, delivered, call, second,
          prefetch

vars == <<data, loaded, defaults, shared, disk, now,
          syncPc, syncBooks, syncActs, hasReadToday, delivered, call, second,
          prefetch>>

(* ------------------------------ the store ------------------------------ *)
\* DEFAULT_DATA as the module declares it
DEFAULT_DATA ==
    [ version |-> 1,
      snapshots |-> <<>>,
      activities |-> <<>>,
      streaks |-> [current |-> 0, longest |-> 0, lastReadDate |-> EmptyString],
      lastSync |-> EmptyString,
      bookPageCounts |-> [b \in {} |-> 0] ]

\* new Date(x).toISOString().split('T')[0]
DateOf(ts) == ts \div TicksPerDay

getTodayDate == DateOf(now)

\* yesterday.setDate(yesterday.getDate() - 1); toISOString().split('T')[0]
\* where the local days have 24 hours: the UTC date before today
yesterdayStr == DateOf(now) - 1

\* setDate keeps the local time of day and goes to the previous local day.
\* That instant lies 24 hours back, or 23 or 25 hours when the clock of the
\* time zone was changed in between, and toISOString gives its UTC date:
\* the date before today; today's own date, 23 hours back from the last
\* hour of a UTC day; or the date two days before today, 25 hours back
\* from the first hour of a UTC day.
yesterdayStrs == { DateOf(now) - back : back \in {0, 1, 2} }

\* JSON.stringify(this.data): a NaN number is written as null
Stringify(d) ==
    [d EXCEPT !.snapshots =
        [i \in 1..Len(d.snapshots) |->
            IF d.snapshots[i].progress = NaN
            THEN [d.snapshots[i] EXCEPT !.progress = Null]
            ELSE d.snapshots[i]]]

\* the keys of ReadingData
Fields == {"version", "snapshots", "activities", "streaks", "lastSync", "bookPageCounts"}

\* the data file holds a document that JSON.parse accepts; disk is <<>>
\* without a file, <<[corrupt |-> TRUE]>> for content that does not parse
Parses(file) == file # <<>> /\ "corrupt" \notin DOMAIN file[1]

\* load(): { ...DEFAULT_DATA, ...parsed, bookPageCounts: parsed.bookPageCounts
\* || {} }, or JSON.parse(JSON.stringify(DEFAULT_DATA)) from the catch
LoadedData(file) ==
    IF Parses(file)
    THEN [f \in Fields |->
            IF f \in DOMAIN file[1] THEN file[1][f]
            ELSE IF f = "bookPageCounts" THEN [b \in {} |-> 0]
            ELSE defaults[f]]
    ELSE Stringify(defaults)

\* the fields the spread copied by reference from DEFAULT_DATA
LoadedShared(file) ==
    IF Parses(file) THEN {"snapshots", "activities", "streaks"} \ DOMAIN file[1]
    ELSE {}

\* ensureLoaded(): this.data once the store is loaded
EnsureLoaded == IF loaded THEN data ELSE LoadedData(disk)

\* the fields shared with DEFAULT_DATA once the store is loaded
EnsureShared == IF loaded THEN shared ELSE LoadedShared(disk)

\* parseFloat(book.percent || '0')
ParseFloat(s) ==
    CASE s = "" -> 0
      [] s = "35" -> 35
      [] OTHER -> NaN

\* book.read_percent ?? parseFloat(book.percent || '0') ?? 0
Progress(book) ==
    IF book.read_percent # Undefined THEN book.read_percent ELSE ParseFloat(book.percent)

\* book.read_status || 'unknown'
Status(book) == IF book.read_status = "" THEN "unknown" ELSE book.read_status

\* a >= b in the place of a > b
GreaterOrEqual(a, b) == a # NaN /\ b # NaN /\ (IF a = Null THEN 0 ELSE a) >= (IF b = Null THEN 0 ELSE b)

\* a > b on JavaScript numbers: false when either is NaN, null counts as 0
ToNumber(x) == IF x = Null THEN 0 ELSE x
Greater(a, b) == a # NaN /\ b # NaN /\ ToNumber(a) > ToNumber(b)

\* the snapshot of the book written last, whatever its timestamp
previousSnapshotLastInArray(snaps, bookId) ==
    LET f == SelectSeq(snaps, LAMBDA s : s.bookId = bookId)
    IN  IF f = <<>> THEN <<>> ELSE <<f[Len(f)]>>

\* the snapshots of the book, most recent timestamp first (a stable sort):
\* the result is <<>> or the one-element sequence of previousSnapshots[0]
previousSnapshot(snaps, bookId) ==
    LET f == SelectSeq(snaps, LAMBDA s : s.bookId = bookId)
    IN  IF f = <<>> THEN <<>>
        ELSE LET i == CHOOSE i \in 1..Len(f) :
                        /\ \A j \in 1..Len(f) : f[j].timestamp <= f[i].timestamp
                        /\ \A j \in 1..(i - 1) : f[j].timestamp < f[i].timestamp
             IN  <<f[i]>>

\* snapshots.findIndex(s => s.bookId === bookId && s.date === today), 0 for -1
todaySnapshotIndex(snaps, bookId, today) ==
    LET hits == {i \in 1..Len(snaps) : snaps[i].bookId = bookId /\ snaps[i].date = today}
    IN  IF hits = {} THEN 0 ELSE CHOOSE i \in hits : \A j \in hits : i <= j

\* the new snapshot pushed without looking for one of its key
UpsertSnapshotAlwaysPush(snaps, newSnapshot) == Append(snaps, newSnapshot)

\* the snapshot list after the new snapshot replaced the one of its
\* (bookId, date) or was pushed
UpsertSnapshot(snaps, newSnapshot) ==
    LET idx == todaySnapshotIndex(snaps, newSnapshot.bookId, newSnapshot.date)
    IN  IF idx > 0 THEN [snaps EXCEPT ![idx] = newSnapshot]
        ELSE Append(snaps, newSnapshot)

\* the previous status left out of the test
IsFinishedIgnoringPrevious(status, previousStatus) == status = "read"

\* status === 'read' && previousSnapshot.status !== 'read'
IsFinished(status, previousStatus) == status = "read" /\ previousStatus # "read"

\* the activity addSnapshot derives: <<>> for null, else <<activity>>
Classify(prev, bookId, progress, status, today, timestamp) ==
    IF prev = <<>>
    THEN IF Greater(progress, 0)
         THEN << [date |-> today, bookId |-> bookId, type |-> "started",
                  progressDelta |-> Undefined, newProgress |-> progress,
                  timestamp |-> timestamp] >>
         ELSE <<>>
    ELSE IF Greater(progress, prev[1].progress)
         THEN LET delta == progress - ToNumber(prev[1].progress)
              IN  IF IsFinished(status, prev[1].status)
                  THEN << [date |-> today, bookId |-> bookId, type |-> "finished",
                           progressDelta |-> delta, newProgress |-> progress,
                           timestamp |-> timestamp] >>
                  ELSE << [date |-> today, bookId |-> bookId, type |-> "progress",
                           progressDelta |-> delta, newProgress |-> progress,
                           timestamp |-> timestamp] >>
         ELSE <<>>

\* Keep only last 100 activities
ActivityCap == 100

\* activities.slice(0, n) in the place of slice(-n)
SliceFirst(s, n) == IF Len(s) > n THEN SubSeq(s, 1, n) ELSE s

\* activities.slice(-n)
SliceLast(s, n) == IF Len(s) > n THEN SubSeq(s, Len(s) - n + 1, Len(s)) ELSE s

\* dedupe left out for 'started'
NeedsDedupeFinishedOnly(type) == type = "finished"

\* dedupe for every type
NeedsDedupeAlways(type) == TRUE

\* Only dedupe for 'started' and 'finished' types
NeedsDedupe(type) == type # "progress"

\* the activity list after addSnapshot recorded the activity
PushActivity(acts, activity) ==
    LET deduped ==
            IF NeedsDedupe(activity.type)
            THEN SelectSeq(acts, LAMBDA a :
                    ~(a.bookId = activity.bookId /\ a.date = activity.date
                      /\ a.type = activity.type))
            ELSE acts
        pushed == Append(deduped, activity)
    IN  IF Len(pushed) > ActivityCap THEN SliceLast(pushed, ActivityCap) ELSE pushed

\* occurredAt ? new Date(occurredAt)... : today / Date.now()
OccurredTimestamp(book) == IF book.mtime = NoMtime THEN now ELSE book.mtime

\* addSnapshot(book, occurredAt) on the data d: the new data and the
\* returned activity
AddSnapshot(d, bookId, book) ==
    LET timestamp == OccurredTimestamp(book)
        today == DateOf(timestamp)
        progress == Progress(book)
        status == Status(book)
        prev == previousSnapshot(d.snapshots, bookId)
        newSnapshot == [date |-> today, bookId |-> bookId, progress |-> progress,
                        status |-> status, timestamp |-> timestamp]
        activity == Classify(prev, bookId, progress, status, today, timestamp)
    IN  [ data |-> [d EXCEPT
                      !.snapshots = UpsertSnapshot(d.snapshots, newSnapshot),
                      !.activities = IF activity = <<>> THEN d.activities
                                     ELSE PushActivity(d.activities, activity[1])],
          activity |-> activity ]

\* addSnapshot on DEFAULT_DATA: snapshots[i] = ... and snapshots.push()
\* write into the shared array, and so does activities.push() of a
\* 'progress' activity; r is the result of AddSnapshot on d
AddSnapshotDefaults(sh, d, r) ==
    [defaults EXCEPT
        !.snapshots = IF "snapshots" \in sh THEN r.data.snapshots ELSE @,
        !.activities = IF /\ "activities" \in sh
                          /\ r.activity # <<>>
                          /\ ~NeedsDedupe(r.activity[1].type)
                       THEN Append(d.activities, r.activity[1]) ELSE @]

\* this.data.activities = ...filter(...) and = ...slice(-100) put a new
\* array in the place of the shared one
AddSnapshotShared(sh, d, r) ==
    IF /\ r.activity # <<>>
       /\ \/ NeedsDedupe(r.activity[1].type)
          \/ Len(d.activities) + 1 > ActivityCap
    THEN sh \ {"activities"} ELSE sh

\* getTodayActivity()
getTodayActivity(d) == SelectSeq(d.activities, LAMBDA a : a.date = getTodayDate)

\* updateStreaks without the update of the longest streak
UpdateStreaksKeepsLongest(s, read, yesterday) ==
    IF read
    THEN LET current == IF s.lastReadDate = yesterday THEN s.current + 1
                        ELSE IF s.lastReadDate # getTodayDate THEN 1
                        ELSE s.current
         IN  [ current |-> current,
               longest |-> s.longest,
               lastReadDate |-> getTodayDate ]
    ELSE IF s.lastReadDate # getTodayDate /\ s.lastReadDate # yesterday
         THEN [s EXCEPT !.current = 0]
         ELSE s

\* updateStreaks(hasReadToday) on the streak record s, yesterday being
\* the value of its yesterdayStr
UpdateStreaks(s, read, yesterday) ==
    IF read
    THEN LET current == IF s.lastReadDate = yesterday THEN s.current + 1
                        ELSE IF s.lastReadDate # getTodayDate THEN 1
                        ELSE s.current
         IN  [ current |-> current,
               longest |-> IF current > s.longest THEN current ELSE s.longest,
               lastReadDate |-> getTodayDate ]
    ELSE IF s.lastReadDate # getTodayDate /\ s.lastReadDate # yesterday
         THEN [s EXCEPT !.current = 0]
         ELSE s

(* ----------------------- the read-side operations --------------------- *)
\* a JavaScript number in a condition: 0, NaN, null and undefined are false
Truthy(x) == x \notin {0, NaN, Null, Undefined}

\* estimatedPagesPerBook, the global default of the settings
estimatedPagesPerBook == 300

\* Math.round((percent / 100) * pageCount): the nearest integer, a half
\* goes up
RoundPages(percent, pageCount) == (2 * percent * pageCount + 100) \div 200

\* the global default whatever bookPageCounts holds
PageCountDefaultOnly(d, bookId) == estimatedPagesPerBook

\* bookPageCounts[bookId] || this.estimatedPagesPerBook
PageCount(d, bookId) ==
    IF bookId \in DOMAIN d.bookPageCounts /\ Truthy(d.bookPageCounts[bookId])
    THEN d.bookPageCounts[bookId]
    ELSE estimatedPagesPerBook

\* the pages getEstimatedPagesToday adds for one activity
PagesOfActivity(d, a) ==
    IF Truthy(a.progressDelta)
    THEN RoundPages(a.progressDelta, PageCount(d, a.bookId))
    ELSE IF a.type = "started" /\ Truthy(a.newProgress) /\ a.newProgress < 100
         THEN RoundPages(a.newProgress, PageCount(d, a.bookId))
         ELSE 0

RECURSIVE SumPages(_, _)
SumPages(d, acts) ==
    IF acts = <<>> THEN 0
    ELSE PagesOfActivity(d, Head(acts)) + SumPages(d, Tail(acts))

\* ReadingStats.getEstimatedPagesToday()
getEstimatedPagesToday(d) == SumPages(d, getTodayActivity(d))

\* the year an ISO date starts with
DaysPerYear == 8
YearOf(date) == date \div DaysPerYear

\* getBooksFinishedInYear(year)
getBooksFinishedInYear(d, year) ==
    Cardinality({ d.activities[i].bookId : i \in
        { i \in DOMAIN d.activities :
            d.activities[i].type = "finished" /\ YearOf(d.activities[i].date) = year } })

\* the comparator of getRecentActivities: by timestamp, newest first, and
\* by date when a timestamp is missing
CompareRecent(a, b) ==
    IF Truthy(a.timestamp) /\ Truthy(b.timestamp) THEN b.timestamp - a.timestamp
    ELSE b.date - a.date

\* Array.prototype.sort is stable: x goes behind what does not sort after it
RECURSIVE InsertRecent(_, _)
InsertRecent(sorted, x) ==
    IF sorted = <<>> THEN <<x>>
    ELSE IF CompareRecent(Head(sorted), x) <= 0
         THEN <<Head(sorted)>> \o InsertRecent(Tail(sorted), x)
         ELSE <<x>> \o sorted

RECURSIVE SortRecent(_)
SortRecent(acts) ==
    IF acts = <<>> THEN <<>>
    ELSE InsertRecent(SortRecent(SubSeq(acts, 1, Len(acts) - 1)), acts[Len(acts)])

\* slice(0, n)
SliceHead(s, n) == IF Len(s) > n THEN SubSeq(s, 1, n) ELSE s

\* getRecentActivities(limit): what it returns
getRecentActivities(d, limit) == SliceHead(SortRecent(d.activities), limit)

\* getLatestSnapshots(): for each book its snapshot of the greatest
\* timestamp, the first of them in the array
getLatestSnapshots(d) ==
    [ b \in { d.snapshots[i].bookId : i \in DOMAIN d.snapshots } |->
        previousSnapshot(d.snapshots, b)[1] ]

\* getReadingHistory(days): the activities by date, from the cutoff date on
getReadingHistory(d, days) ==
    [ date \in { d.activities[i].date : i \in
                  { i \in DOMAIN d.activities : d.activities[i].date >= DateOf(now) - days } }
      |-> SelectSeq(d.activities, LAMBDA a : a.date = date) ]

\* getStreaks()
getStreaks(d) == d.streaks

\* formatActivityForDisplay(activity): the type and, for 'progress', the
\* pages the text names
FormatActivity(d, a) ==
    [ bookId |-> a.bookId, type |-> a.type, timestamp |-> a.timestamp,
      pages |-> IF a.type = "progress"
                THEN RoundPages(IF Truthy(a.progressDelta) THEN a.progressDelta ELSE 0,
                                PageCount(d, a.bookId))
                ELSE Undefined ]

\* getRecentActivityFeed(limit)
getRecentActivityFeed(d, limit) ==
    LET shown == SliceHead(
                    SelectSeq(getRecentActivities(d, limit * 2),
                              LAMBDA a : ~(a.type = "started" /\ a.newProgress = 100)),
                    limit)
    IN  [ i \in 1..Len(shown) |-> FormatActivity(d, shown[i]) ]

\* the pages of an activity with a delta, whatever its type
ProgressPagesAnyType(d, a) ==
    IF Truthy(a.progressDelta)
    THEN RoundPages(a.progressDelta, PageCount(d, a.bookId))
    ELSE 0

\* the pages generateReadingAnalytics adds for one activity
ProgressPages(d, a) ==
    IF a.type = "progress" /\ Truthy(a.progressDelta)
    THEN RoundPages(a.progressDelta, PageCount(d, a.bookId))
    ELSE 0

RECURSIVE SumProgressPages(_, _)
SumProgressPages(d, acts) ==
    IF acts = <<>> THEN 0
    ELSE ProgressPages(d, Head(acts)) + SumProgressPages(d, Tail(acts))

\* dailyPages: date -> pages, for the dates with a counted activity
dailyPages(acts, d) ==
    [ date \in { acts[i].date : i \in
                  { i \in DOMAIN acts :
                      acts[i].type = "progress" /\ Truthy(acts[i].progressDelta) } }
      |-> SumProgressPages(d, SelectSeq(acts, LAMBDA a : a.date = date)) ]

\* x || 0
OrZero(x) == IF Truthy(x) THEN x ELSE 0

\* the entry of one book in dailyBooks[date] after one more activity of
\* that date: the entry found for the book gets the delta added and the
\* type 'finished' from a 'finished' activity; a book without an entry
\* gets one, with the delta and the type of the activity
AddBookEntry(entries, a) ==
    IF \E i \in DOMAIN entries : entries[i].bookId = a.bookId
    THEN LET i == CHOOSE j \in DOMAIN entries : entries[j].bookId = a.bookId
         IN  [entries EXCEPT ![i] =
                [ bookId |-> @.bookId,
                  progressDelta |-> OrZero(@.progressDelta) + OrZero(a.progressDelta),
                  type |-> IF a.type = "finished" THEN "finished" ELSE @.type ]]
    ELSE Append(entries, [ bookId |-> a.bookId,
                           progressDelta |-> a.progressDelta,
                           type |-> a.type ])

RECURSIVE BookEntries(_, _)
BookEntries(entries, acts) ==
    IF acts = <<>> THEN entries
    ELSE BookEntries(AddBookEntry(entries, Head(acts)), Tail(acts))

\* dailyBooks: date -> entries, for the dates with an activity
dailyBooks(acts) ==
    [ date \in { acts[i].date : i \in DOMAIN acts }
      |-> BookEntries(<<>>, SelectSeq(acts, LAMBDA a : a.date = date)) ]

RECURSIVE SumOver(_, _)
SumOver(f, S) ==
    IF S = {} THEN 0
    ELSE LET x == CHOOSE x \in S : TRUE IN f[x] + SumOver(f, S \ {x})

\* new Date(dateStr): the first instant of the date
Midnight(date) == date * TicksPerDay

\* thirtyDaysAgo and sixtyDaysAgo: setDate(getDate() - 30), - 60
TrendDays == 30
DaysAgo(n) == now - n * TicksPerDay

\* trendPercent without the branch for a reader with no previous pages
TrendPercentNoNewReader(last30, prev30) ==
    IF prev30 > 0 THEN [num |-> (last30 - prev30) * 100, den |-> prev30]
    ELSE [num |-> 0, den |-> 1]

\* trendPercent from the page totals of the last and the previous 30
\* days, as the fraction num / den
TrendPercent(last30, prev30) ==
    IF prev30 > 0 THEN [num |-> (last30 - prev30) * 100, den |-> prev30]
    ELSE IF last30 > 0 THEN [num |-> 100, den |-> 1]
    ELSE [num |-> 0, den |-> 1]

\* generateReadingAnalytics(database): acts is getAllActivities(), read
\* before the first await; d the store the awaited calls see
generateReadingAnalytics(acts, d) ==
    LET dp == dailyPages(acts, d)
        last30 == SumOver(dp, { date \in DOMAIN dp :
                      Midnight(date) >= DaysAgo(TrendDays) /\ Midnight(date) <= now })
        prev30 == SumOver(dp, { date \in DOMAIN dp :
                      /\ Midnight(date) >= DaysAgo(2 * TrendDays)
                      /\ Midnight(date) < DaysAgo(TrendDays) })
        best == IF DOMAIN dp = {} THEN 0
                ELSE LET date == CHOOSE x \in DOMAIN dp : \A y \in DOMAIN dp : dp[y] <= dp[x]
                     IN  dp[date]
    IN  [ dailyPages |-> dp,
          dailyBooks |-> dailyBooks(acts),
          totalPages30Days |-> last30,
          bestDayPages |-> best,
          trendPercent |-> TrendPercent(last30, prev30),
          currentStreak |-> getStreaks(d).current,
          longestStreak |-> getStreaks(d).longest ]

\* the colours with the second threshold at 14 pages
heatmapColorFrom14(pages) ==
    IF pages > 0
    THEN IF pages >= 50 THEN "#22c55e"
         ELSE IF pages >= 30 THEN "#4ade80"
         ELSE IF pages >= 14 THEN "#86efac"
         ELSE "#bbf7d0"
    ELSE "var(--background-modifier-border)"

\* the colour drawHeatmap gives the box of a day with that many pages
heatmapColor(pages) ==
    IF pages > 0
    THEN IF pages >= 50 THEN "#22c55e"
         ELSE IF pages >= 30 THEN "#4ade80"
         ELSE IF pages >= 15 THEN "#86efac"
         ELSE "#bbf7d0"
    ELSE "var(--background-modifier-border)"

(* ------------------------------ the state ------------------------------ *)
\* no read-side operation was called yet
NoCall == [op |-> "none", args |-> <<>>, result |-> <<>>]

\* the PrefetchService after its constructor
NewPrefetchService ==
    [ queue |-> <<>>, isProcessing |-> FALSE, processedCache |-> {}, loops |-> <<>> ]

\* no second onSync was called
NoSecond == [ pc |-> "idle", books |-> <<>>, acts |-> <<>>, hasReadToday |-> FALSE,
              batch |-> <<>>, before |-> <<>> ]

Init ==
    /\ data = DEFAULT_DATA
    /\ loaded = FALSE
    /\ defaults = DEFAULT_DATA
    /\ shared = {}
    /\ disk = <<>>
    /\ now = TicksPerDay
    /\ syncPc = "idle"
    /\ syncBooks = <<>>
    /\ syncActs = <<>>
    /\ hasReadToday = FALSE
    /\ delivered = 0
    /\ second = NoSecond
    /\ prefetch = NewPrefetchService
    /\ call = NoCall

syncVars == <<syncPc, syncBooks, syncActs, hasReadToday, delivered, call>>

\* the clock advances by step, up to last
Tick(step, last) ==
    /\ now + step <= last
    /\ now' = now + step
    /\ UNCHANGED <<prefetch, second, data, loaded, defaults, shared, disk, syncVars>>

\* save(): the vault write succeeds (ok), or fails and is only logged
Save(d, ok) == disk' = IF ok THEN <<Stringify(d)>> ELSE disk

\* onSync(books) with tracking enabled, up to the loop
StartSync(books) ==
    /\ syncPc = "idle"
    /\ delivered' = delivered + Len(books)
    /\ syncPc' = "books"
    /\ syncBooks' = books
    /\ syncActs' = <<>>
    /\ UNCHANGED <<prefetch, second, data, loaded, defaults, shared, disk, now, hasReadToday, call>>

\* the streak engine runs after each book of the loop
SyncBookUpdatesStreaks(book) ==
    /\ syncPc = "books"
    /\ syncBooks # <<>>
    /\ book.mtime # InvalidMtime
    /\ LET r == AddSnapshot(EnsureLoaded, Head(syncBooks), book)
       IN  /\ data' = [r.data EXCEPT !.streaks = UpdateStreaks(@, r.activity # <<>>, yesterdayStr)]
           /\ syncActs' = syncActs \o r.activity
           /\ defaults' = AddSnapshotDefaults(EnsureShared, EnsureLoaded, r)
           /\ shared' = AddSnapshotShared(EnsureShared, EnsureLoaded, r)
    /\ loaded' = TRUE
    /\ syncBooks' = Tail(syncBooks)
    /\ UNCHANGED <<prefetch, second, disk, now, syncPc, hasReadToday, delivered, call>>

\* one turn of the loop: addSnapshot returns
SyncBook(book) ==
    /\ syncPc = "books"
    /\ syncBooks # <<>>
    /\ book.mtime # InvalidMtime
    /\ LET r == AddSnapshot(EnsureLoaded, Head(syncBooks), book)
       IN  /\ data' = r.data
           /\ syncActs' = syncActs \o r.activity
           /\ defaults' = AddSnapshotDefaults(EnsureShared, EnsureLoaded, r)
           /\ shared' = AddSnapshotShared(EnsureShared, EnsureLoaded, r)
    /\ loaded' = TRUE
    /\ syncBooks' = Tail(syncBooks)
    /\ UNCHANGED <<prefetch, second, disk, now, syncPc, hasReadToday, delivered, call>>

\* the error of one book ends the loop
SyncBookThrowsAborts(book) ==
    /\ syncPc = "books"
    /\ syncBooks # <<>>
    /\ book.mtime = InvalidMtime
    /\ data' = EnsureLoaded
    /\ shared' = EnsureShared
    /\ loaded' = TRUE
    /\ syncBooks' = <<>>
    /\ UNCHANGED <<prefetch, second, defaults, disk, now, syncPc, syncActs, hasReadToday, delivered, call>>

\* one turn of the loop: new Date(occurredAt).toISOString() throws a
\* RangeError, which the loop catches and logs
SyncBookThrows(book) ==
    /\ syncPc = "books"
    /\ syncBooks # <<>>
    /\ book.mtime = InvalidMtime
    /\ data' = EnsureLoaded
    /\ shared' = EnsureShared
    /\ loaded' = TRUE
    /\ syncBooks' = Tail(syncBooks)
    /\ UNCHANGED <<prefetch, second, defaults, disk, now, syncPc, syncActs, hasReadToday, delivered, call>>

\* activities.length > 0 || (await getTodayActivity()).length > 0
HasReadToday(acts, d) == Len(acts) > 0 \/ Len(getTodayActivity(d)) > 0

SyncHasReadToday ==
    /\ syncPc = "books"
    /\ syncBooks = <<>>
    /\ hasReadToday' = HasReadToday(syncActs, EnsureLoaded)
    /\ data' = IF Len(syncActs) > 0 THEN data ELSE EnsureLoaded
    /\ shared' = IF Len(syncActs) > 0 THEN shared ELSE EnsureShared
    /\ loaded' = IF Len(syncActs) > 0 THEN loaded ELSE TRUE
    /\ syncPc' = "streaks"
    /\ UNCHANGED <<prefetch, second, defaults, disk, now, syncBooks, syncActs, delivered, call>>

\* await this.database.updateStreaks(hasReadToday)
SyncUpdateStreaksAt(yesterday) ==
    /\ syncPc = "streaks"
    /\ data' = [EnsureLoaded EXCEPT !.streaks = UpdateStreaks(@, hasReadToday, yesterday)]
    /\ defaults' = IF "streaks" \in EnsureShared
                   THEN [defaults EXCEPT !.streaks = data'.streaks] ELSE defaults
    /\ shared' = EnsureShared
    /\ loaded' = TRUE
    /\ syncPc' = "lastSync"
    /\ UNCHANGED <<prefetch, second, disk, now, syncBooks, syncActs, hasReadToday, delivered, call>>

\* the same in a time zone whose clock does not change
SyncUpdateStreaks == SyncUpdateStreaksAt(yesterdayStr)

\* await this.database.updateLastSync()
SyncUpdateLastSync ==
    /\ syncPc = "lastSync"
    /\ data' = [EnsureLoaded EXCEPT !.lastSync = now]
    /\ shared' = EnsureShared
    /\ loaded' = TRUE
    /\ syncPc' = "save"
    /\ UNCHANGED <<prefetch, second, defaults, disk, now, syncBooks, syncActs, hasReadToday, delivered, call>>

\* a failed write puts the store back to what the file holds
SyncSaveRollsBack(ok) ==
    /\ syncPc = "save"
    /\ Save(data, ok)
    /\ data' = IF ok THEN data ELSE LoadedData(disk)
    /\ shared' = IF ok THEN shared ELSE LoadedShared(disk)
    /\ syncPc' = "idle"
    /\ syncActs' = <<>>
    /\ hasReadToday' = FALSE
    /\ UNCHANGED <<prefetch, second, loaded, defaults, now, syncBooks, delivered, call>>

\* await this.database.save(), then the notifications; onSync returns and
\* its locals are gone
SyncSave(ok) ==
    /\ syncPc = "save"
    /\ Save(data, ok)
    /\ syncPc' = "idle"
    /\ syncActs' = <<>>
    /\ hasReadToday' = FALSE
    /\ UNCHANGED <<prefetch, second, data, loaded, defaults, shared, now, syncBooks, delivered, call>>

\* The handlers below are started by the user interface.  The sync cycle
\* gives way to them only where it waits for the vault, in save().
Yielded == syncPc \in {"idle", "save"}

\* load(), from initialize() and refresh()
Load ==
    /\ Yielded
    /\ data' = LoadedData(disk)
    /\ shared' = LoadedShared(disk)
    /\ loaded' = TRUE
    /\ UNCHANGED <<prefetch, second, defaults, disk, now, syncVars>>

\* a read-side operation of the store or of ReadingStats: ensureLoaded(),
\* then the value it returns
ReadCall(op, args, value) ==
    /\ Yielded
    /\ data' = EnsureLoaded
    /\ shared' = EnsureShared
    /\ loaded' = TRUE
    /\ call' = [op |-> op, args |-> args, result |-> <<value>>]
    /\ UNCHANGED <<prefetch, second, defaults, disk, now, syncPc, syncBooks, syncActs, hasReadToday, delivered>>

\* this.data.activities.sort(...) in the place of [...this.data.activities]
CallGetRecentActivitiesSortsInPlace(limit) ==
    /\ Yielded
    /\ data' = [EnsureLoaded EXCEPT !.activities = SortRecent(@)]
    /\ shared' = EnsureShared
    /\ loaded' = TRUE
    /\ call' = [op |-> "getRecentActivities", args |-> <<limit>>,
                result |-> <<getRecentActivities(EnsureLoaded, limit)>>]
    /\ UNCHANGED <<prefetch, second, defaults, disk, now, syncPc, syncBooks, syncActs, hasReadToday, delivered>>

\* getRecentActivities(limit): a copy of the activity list is sorted
CallGetRecentActivities(limit) ==
    ReadCall("getRecentActivities", <<limit>>, getRecentActivities(EnsureLoaded, limit))

CallGetLatestSnapshots ==
    ReadCall("getLatestSnapshots", <<>>, getLatestSnapshots(EnsureLoaded))

CallGetReadingHistory(days) ==
    ReadCall("getReadingHistory", <<days>>, getReadingHistory(EnsureLoaded, days))

CallGetTodayActivity ==
    ReadCall("getTodayActivity", <<>>, getTodayActivity(EnsureLoaded))

CallGetStreaks ==
    ReadCall("getStreaks", <<>>, getStreaks(EnsureLoaded))

CallGetBooksFinishedInYear(year) ==
    ReadCall("getBooksFinishedInYear", <<year>>, getBooksFinishedInYear(EnsureLoaded, year))

CallGetEstimatedPagesToday ==
    ReadCall("getEstimatedPagesToday", <<>>, getEstimatedPagesToday(EnsureLoaded))

CallGetRecentActivityFeed(limit) ==
    ReadCall("getRecentActivityFeed", <<limit>>, getRecentActivityFeed(EnsureLoaded, limit))

CallGenerateReadingAnalytics ==
    ReadCall("generateReadingAnalytics", <<>>,
             generateReadingAnalytics(data.activities, EnsureLoaded))

\* the data file is written from outside the plugin (a vault sync, an
\* editor, an older version of the plugin), or removed for <<>>
VaultWrite(file) ==
    /\ disk' = file
    /\ UNCHANGED <<prefetch, second, data, loaded, defaults, shared, now, syncVars>>

clearActivities(ok) ==
    /\ Yielded
    /\ data' = [EnsureLoaded EXCEPT !.activities = <<>>]
    /\ shared' = EnsureShared \ {"activities"}
    /\ loaded' = TRUE
    /\ Save(data', ok)
    /\ UNCHANGED <<prefetch, second, defaults, now, syncVars>>

clearSnapshots(ok) ==
    /\ Yielded
    /\ data' = [EnsureLoaded EXCEPT !.snapshots = <<>>]
    /\ shared' = EnsureShared \ {"snapshots"}
    /\ loaded' = TRUE
    /\ Save(data', ok)
    /\ UNCHANGED <<prefetch, second, defaults, now, syncVars>>

resetStreaks(ok) ==
    /\ Yielded
    /\ data' = [EnsureLoaded EXCEPT
                  !.streaks = [current |-> 0, longest |-> 0, lastReadDate |-> EmptyString]]
    /\ shared' = EnsureShared \ {"streaks"}
    /\ loaded' = TRUE
    /\ Save(data', ok)
    /\ UNCHANGED <<prefetch, second, defaults, now, syncVars>>

\* resetAll() does not call ensureLoaded(); it puts a new object, written
\* out field by field, in the place of this.data
resetAll(ok) ==
    /\ Yielded
    /\ data' = DEFAULT_DATA
    /\ shared' = {}
    /\ Save(data', ok)
    /\ UNCHANGED <<prefetch, second, loaded, defaults, now, syncVars>>

setBookPageCount(bookId, pageCount, ok) ==
    /\ Yielded
    /\ LET d == EnsureLoaded
           old == d.bookPageCounts
       IN  data' = [d EXCEPT !.bookPageCounts =
                      [b \in DOMAIN old \cup {bookId} |->
                          IF b = bookId THEN pageCount ELSE old[b]]]
    /\ shared' = EnsureShared
    /\ loaded' = TRUE
    /\ Save(data', ok)
    /\ UNCHANGED <<prefetch, second, defaults, now, syncVars>>

(* The store under sync cycles and the reset handlers of the settings tab, *)
(* within one day, with a vault whose writes succeed.                      *)
Next ==
    \/ Tick(1, TicksPerDay + MaxTicks)
    \/ \E books \in Batches : delivered + Len(books) <= MaxDelivered /\ StartSync(books)
    \/ \E book \in Observations(now) : SyncBook(book)
    \/ SyncHasReadToday
    \/ SyncUpdateStreaks
    \/ SyncUpdateLastSync
    \/ SyncSave(TRUE)
    \/ clearActivities(TRUE)
    \/ clearSnapshots(TRUE)
    \/ resetAll(TRUE)

Spec == Init /\ [][Next]_vars

(* --------------- one book over several syncs of one day ---------------- *)
MaxBookDelivered == 3
BookBatches == {<<"B1">>}
BookObservations(t) ==
    { [read_percent |-> rp, percent |-> "", read_status |-> st, mtime |-> m] :
        rp \in {35, 70}, st \in ReadStatuses, m \in Mtimes(t) }

NextBook ==
    \/ Tick(1, TicksPerDay + MaxTicks)
    \/ \E books \in BookBatches :
          delivered + Len(books) <= MaxBookDelivered /\ StartSync(books)
    \/ \E book \in BookObservations(now) : SyncBook(book)
    \/ SyncHasReadToday
    \/ SyncUpdateStreaks
    \/ SyncUpdateLastSync
    \/ SyncSave(TRUE)

SpecBook == Init /\ [][NextBook]_vars

(* ------------- syncs with books whose mtime does not parse ------------- *)
MaxThrowDelivered == 3
ThrowObservations(t) ==
    { [read_percent |-> rp, percent |-> "", read_status |-> "reading", mtime |-> m] :
        rp \in {35, 70}, m \in {NoMtime, InvalidMtime} }

\* the steps of a running onSync
SyncStepThrow ==
    \/ \E book \in ThrowObservations(now) : SyncBook(book)
    \/ \E book \in ThrowObservations(now) : SyncBookThrows(book)
    \/ SyncHasReadToday
    \/ SyncUpdateStreaks
    \/ SyncUpdateLastSync
    \/ SyncSave(TRUE)

NextThrow ==
    \/ Tick(1, TicksPerDay + MaxTicks)
    \/ \E books \in Batches :
          delivered + Len(books) <= MaxThrowDelivered /\ StartSync(books)
    \/ SyncStepThrow

\* a running onSync goes on: the promises it awaits are settled
SpecThrow == Init /\ [][NextThrow]_vars /\ WF_vars(SyncStepThrow)

(* -------- loads of documents that are partial, corrupt or missing ------ *)
MaxLoadDelivered == 2

\* a document without snapshots, activities and streaks; content that
\* JSON.parse rejects; no file
ForeignFiles == { <<[version |-> 1]>>, <<[corrupt |-> TRUE]>>, <<>> }

NextLoad ==
    \/ Tick(1, TicksPerDay + MaxTicks)
    \/ \E file \in ForeignFiles : VaultWrite(file)
    \/ Load
    \/ \E books \in BookBatches :
          delivered + Len(books) <= MaxLoadDelivered /\ StartSync(books)
    \/ \E book \in BookObservations(now) : SyncBook(book)
    \/ SyncHasReadToday
    \/ SyncUpdateStreaks
    \/ SyncUpdateLastSync
    \/ SyncSave(TRUE)

SpecLoad == Init /\ [][NextLoad]_vars

(* ------------------- a vault whose writes may fail --------------------- *)
MaxSaveDelivered == 2

NextSave ==
    \/ Tick(1, TicksPerDay + MaxTicks)
    \/ \E books \in BookBatches :
          delivered + Len(books) <= MaxSaveDelivered /\ StartSync(books)
    \/ \E book \in BookObservations(now) : SyncBook(book)
    \/ SyncHasReadToday
    \/ SyncUpdateStreaks
    \/ SyncUpdateLastSync
    \/ SyncSave(TRUE)
    \/ SyncSave(FALSE)

SpecSave == Init /\ [][NextSave]_vars

(* --------------- the read-side operations between syncs ---------------- *)
MaxReadDelivered == 2

\* the calls of the dashboard, the status bar and the library
ReadStep ==
    \/ CallGetLatestSnapshots
    \/ \E limit \in {1, 100} : CallGetRecentActivities(limit)
    \/ CallGetReadingHistory(7)
    \/ CallGetTodayActivity
    \/ CallGetStreaks
    \/ CallGetBooksFinishedInYear(YearOf(DateOf(now)))
    \/ CallGetEstimatedPagesToday
    \/ CallGetRecentActivityFeed(10)
    \/ CallGenerateReadingAnalytics

NextRead ==
    \/ Tick(1, TicksPerDay + MaxTicks)
    \/ \E books \in BookBatches :
          delivered + Len(books) <= MaxReadDelivered /\ StartSync(books)
    \/ \E book \in BookObservations(now) : SyncBook(book)
    \/ SyncHasReadToday
    \/ SyncUpdateStreaks
    \/ SyncUpdateLastSync
    \/ SyncSave(TRUE)
    \/ ReadStep

SpecRead == Init /\ [][NextRead]_vars

(* ----------- observations without usable progress or status ------------ *)
MaxMalformedDelivered == 2

\* a book with read_percent; a book without it whose percent string is
\* not a number; each with a status or without one
MalformedObservations(t) ==
    { [read_percent |-> rp, percent |-> pc, read_status |-> st, mtime |-> NoMtime] :
        rp \in {35}, pc \in {""}, st \in {"reading", ""} }
    \cup
    { [read_percent |-> Undefined, percent |-> "abc", read_status |-> st,
       mtime |-> NoMtime] : st \in {"reading", ""} }

NextMalformed ==
    \/ Tick(1, TicksPerDay + MaxTicks)
    \/ \E books \in BookBatches :
          delivered + Len(books) <= MaxMalformedDelivered /\ StartSync(books)
    \/ \E book \in MalformedObservations(now) : SyncBook(book)
    \/ SyncHasReadToday
    \/ SyncUpdateStreaks
    \/ SyncUpdateLastSync
    \/ SyncSave(TRUE)
    \/ Load

SpecMalformed == Init /\ [][NextMalformed]_vars

(* ------------- one book read over four days, a sync a day -------------- *)
\* read_percent of B1 on day 1, 2, 3 and 4
ScenarioProgress == <<0, 35, 70, 100>>

\* the book object of day k: read on the last day, with or without mtime
ScenarioObservations(k, t) ==
    { [read_percent |-> ScenarioProgress[k], percent |-> "",
       read_status |-> IF k = Len(ScenarioProgress) THEN "read" ELSE "reading",
       mtime |-> m] : m \in {NoMtime, t} }

NextScenario ==
    \/ Tick(1, (Len(ScenarioProgress) + 1) * TicksPerDay - 1)
    \/ /\ delivered < Len(ScenarioProgress)
       /\ DateOf(now) = delivered + 1
       /\ StartSync(<<"B1">>)
    \/ /\ DateOf(now) = delivered
       /\ delivered \in DOMAIN ScenarioProgress
       /\ \E book \in ScenarioObservations(delivered, now) : SyncBook(book)
    \/ SyncHasReadToday
    \/ SyncUpdateStreaks
    \/ SyncUpdateLastSync
    \/ SyncSave(TRUE)
    \/ CallGetBooksFinishedInYear(YearOf(DateOf(now)))

SpecScenario == Init /\ [][NextScenario]_vars

(* ------------- the pages of today, with page count overrides ----------- *)
MaxPagesDelivered == 2

\* the page counts the views set: a positive number typed by the user
PageCountInputs == {400}

PagesObservations(t) ==
    { [read_percent |-> rp, percent |-> "", read_status |-> st, mtime |-> m] :
        rp \in {10, 35, 100}, st \in ReadStatuses, m \in Mtimes(t) }

NextPages ==
    \/ Tick(1, TicksPerDay + MaxTicks)
    \/ \E books \in BookBatches :
          delivered + Len(books) <= MaxPagesDelivered /\ StartSync(books)
    \/ \E book \in PagesObservations(now) : SyncBook(book)
    \/ SyncHasReadToday
    \/ SyncUpdateStreaks
    \/ SyncUpdateLastSync
    \/ SyncSave(TRUE)
    \/ \E pageCount \in PageCountInputs : setBookPageCount("B1", pageCount, TRUE)
    \/ CallGetEstimatedPagesToday

SpecPages == Init /\ [][NextPages]_vars

(* ------------------- the trend of the page totals ---------------------- *)
MaxTrendPages == 12

\* page totals of a 30-day window: sums of rounded page estimates
TrendTotals == 0 .. MaxTrendPages \cup {40}

\* the store is fresh; the two totals are those generateReadingAnalytics
\* has summed up when it reaches the trend
InitTrend ==
    /\ data = DEFAULT_DATA
    /\ loaded = FALSE
    /\ defaults = DEFAULT_DATA
    /\ shared = {}
    /\ disk = <<>>
    /\ now = TicksPerDay
    /\ syncPc = "idle"
    /\ syncBooks = <<>>
    /\ syncActs = <<>>
    /\ hasReadToday = FALSE
    /\ delivered = 0
    /\ second = NoSecond
    /\ prefetch = NewPrefetchService
    /\ \E last30 \in TrendTotals, prev30 \in TrendTotals :
          call = [op |-> "trendPercent", args |-> <<last30, prev30>>, result |-> <<>>]

\* let trendPercent = 0; if (totalPagesPrev30Days > 0) ... else if ...
ComputeTrendPercent ==
    /\ call.op = "trendPercent"
    /\ call.result = <<>>
    /\ call' = [call EXCEPT !.result = << TrendPercent(call.args[1], call.args[2]) >>]
    /\ UNCHANGED <<prefetch, second, data, loaded, defaults, shared, disk, now, syncPc, syncBooks, syncActs, hasReadToday, delivered>>

NextTrend == ComputeTrendPercent

SpecTrend == InitTrend /\ [][NextTrend]_vars

(* ---------------------- the colours of the heatmap --------------------- *)
MaxHeatPages == 60

\* the store is fresh; the page total is that of one day of heatmapData
InitHeatmap ==
    /\ data = DEFAULT_DATA
    /\ loaded = FALSE
    /\ defaults = DEFAULT_DATA
    /\ shared = {}
    /\ disk = <<>>
    /\ now = TicksPerDay
    /\ syncPc = "idle"
    /\ syncBooks = <<>>
    /\ syncActs = <<>>
    /\ hasReadToday = FALSE
    /\ delivered = 0
    /\ second = NoSecond
    /\ prefetch = NewPrefetchService
    /\ \E pages \in 0 .. MaxHeatPages :
          call = [op |-> "drawHeatmap", args |-> <<pages>>, result |-> <<>>]

\* one turn of heatmapData.forEach: the box of the day gets its colour
DrawHeatmapBox ==
    /\ call.op = "drawHeatmap"
    /\ call.result = <<>>
    /\ call' = [call EXCEPT !.result = << heatmapColor(call.args[1]) >>]
    /\ UNCHANGED <<prefetch, second, data, loaded, defaults, shared, disk, now, syncPc, syncBooks, syncActs, hasReadToday, delivered>>

NextHeatmap == DrawHeatmapBox

SpecHeatmap == InitHeatmap /\ [][NextHeatmap]_vars

(* ---------------- the analytics of the activity log -------------------- *)
MaxAnalyticsDelivered == 3

\* a book read on to 10, 35 or 60 percent, or marked as read at 60
AnalyticsObservations(t) ==
    { book \in { [read_percent |-> rp, percent |-> "", read_status |-> st, mtime |-> m] :
                    rp \in {10, 35, 60}, st \in ReadStatuses, m \in Mtimes(t) } :
        book.read_status = "read" => book.read_percent = 60 }

\* a sync delivers one of the two books
AnalyticsBatches == { <<b>> : b \in Books }

NextAnalytics ==
    \/ \E books \in AnalyticsBatches :
          delivered + Len(books) <= MaxAnalyticsDelivered /\ StartSync(books)
    \/ \E book \in AnalyticsObservations(now) : SyncBook(book)
    \/ SyncHasReadToday
    \/ SyncUpdateStreaks
    \/ SyncUpdateLastSync
    \/ SyncSave(TRUE)
    \/ \E pageCount \in PageCountInputs : setBookPageCount("B1", pageCount, TRUE)
    \/ CallGenerateReadingAnalytics

SpecAnalytics == Init /\ [][NextAnalytics]_vars

(* ------------------ two onSync calls that overlap ---------------------- *)
MaxOverlapDelivered == 1

\* the books a sync delivers, each with its observation
OverlapObservations(t) ==
    { [read_percent |-> rp, percent |-> "", read_status |-> st, mtime |-> m] :
        rp \in {35, 70}, st \in ReadStatuses, m \in Mtimes(t) }

OverlapBatches(t) ==
    { <<[bookId |-> b, book |-> o]>> : b \in {"B1"}, o \in OverlapObservations(t) }
    \cup { <<[bookId |-> "B1", book |-> o1], [bookId |-> "B2", book |-> o2]>> :
             o1 \in OverlapObservations(t), o2 \in OverlapObservations(t) }

\* the fast_hash of each book of a batch
BookIds(batch) == [i \in DOMAIN batch |-> batch[i].bookId]

\* the auto-sync interval fires while an import is running, or the other
\* way round: onSync is called twice with the same books, and both calls
\* are in their loop before either has done a step
StartOverlap(batch) ==
    /\ syncPc = "idle"
    /\ second = NoSecond
    /\ loaded
    /\ syncPc' = "books"
    /\ syncBooks' = BookIds(batch)
    /\ syncActs' = <<>>
    /\ second' = [ pc |-> "books", books |-> batch, acts |-> <<>>,
                   hasReadToday |-> FALSE, batch |-> batch, before |-> <<data>> ]
    /\ UNCHANGED <<prefetch, data, loaded, defaults, shared, disk, now, hasReadToday, delivered, call>>

\* the book the first call is at, as the batch has it
FirstBook == second.batch[Len(second.batch) - Len(syncBooks) + 1].book

\* one turn of the loop of the second call
SecondBook ==
    /\ second.pc = "books"
    /\ second.books # <<>>
    /\ LET r == AddSnapshot(EnsureLoaded, Head(second.books).bookId, Head(second.books).book)
       IN  /\ data' = r.data
           /\ second' = [second EXCEPT !.books = Tail(@), !.acts = @ \o r.activity]
           /\ defaults' = AddSnapshotDefaults(EnsureShared, EnsureLoaded, r)
           /\ shared' = AddSnapshotShared(EnsureShared, EnsureLoaded, r)
    /\ loaded' = TRUE
    /\ UNCHANGED <<prefetch, disk, now, syncVars>>

SecondHasReadToday ==
    /\ second.pc = "books"
    /\ second.books = <<>>
    /\ second' = [second EXCEPT !.pc = "streaks",
                                !.hasReadToday = HasReadToday(second.acts, EnsureLoaded)]
    /\ data' = IF Len(second.acts) > 0 THEN data ELSE EnsureLoaded
    /\ shared' = IF Len(second.acts) > 0 THEN shared ELSE EnsureShared
    /\ loaded' = IF Len(second.acts) > 0 THEN loaded ELSE TRUE
    /\ UNCHANGED <<prefetch, defaults, disk, now, syncVars>>

SecondUpdateStreaks ==
    /\ second.pc = "streaks"
    /\ data' = [EnsureLoaded EXCEPT
                  !.streaks = UpdateStreaks(@, second.hasReadToday, yesterdayStr)]
    /\ defaults' = IF "streaks" \in EnsureShared
                   THEN [defaults EXCEPT !.streaks = data'.streaks] ELSE defaults
    /\ shared' = EnsureShared
    /\ loaded' = TRUE
    /\ second' = [second EXCEPT !.pc = "lastSync"]
    /\ UNCHANGED <<prefetch, disk, now, syncVars>>

SecondUpdateLastSync ==
    /\ second.pc = "lastSync"
    /\ data' = [EnsureLoaded EXCEPT !.lastSync = now]
    /\ shared' = EnsureShared
    /\ loaded' = TRUE
    /\ second' = [second EXCEPT !.pc = "save"]
    /\ UNCHANGED <<prefetch, defaults, disk, now, syncVars>>

\* the save of the second call, after which it returns
SecondSave(ok) ==
    /\ second.pc = "save"
    /\ Save(data, ok)
    /\ second' = [second EXCEPT !.pc = "idle", !.acts = <<>>, !.hasReadToday = FALSE]
    /\ UNCHANGED <<prefetch, data, loaded, defaults, shared, now, syncVars>>

\* syncs one after the other make the store; then two calls with one
\* batch run side by side
NextOverlap ==
    \/ \E books \in BookBatches :
          /\ second = NoSecond
          /\ delivered + Len(books) <= MaxOverlapDelivered
          /\ StartSync(books)
    \/ \E book \in OverlapObservations(now) : second = NoSecond /\ SyncBook(book)
    \/ \E batch \in OverlapBatches(now) : StartOverlap(batch)
    \/ second # NoSecond /\ syncBooks # <<>> /\ SyncBook(FirstBook)
    \/ SyncHasReadToday
    \/ SyncUpdateStreaks
    \/ SyncUpdateLastSync
    \/ SyncSave(TRUE)
    \/ SecondBook
    \/ SecondHasReadToday
    \/ SecondUpdateStreaks
    \/ SecondUpdateLastSync
    \/ SecondSave(TRUE)

SpecOverlap == Init /\ [][NextOverlap]_vars

(* ---------------------- the PrefetchService queue ---------------------- *)
\* the cap of the queue (200 in the source, scaled down)
maxQueueSize == 2

\* the books the callers ask for; two of them have the same key
PrefetchTitles == { "a", "a-b" }
PrefetchAuthors == { "c", "b-c" }
\* 1 = background, 10 = the user clicked
PrefetchPriorities == { 1, 10 }

\* `${title}-${author}`
Key(title, author) == title \o "-" \o author

ItemKey(item) == Key(item.title, item.author)

\* x placed behind the items that do not come after it: what the stable
\* sort by falling priority does to the item pushed or raised last
InsertByPriority(sorted, x) ==
    SelectSeq(sorted, LAMBDA y : y.priority >= x.priority)
      \o <<x>>
      \o SelectSeq(sorted, LAMBDA y : y.priority < x.priority)

RECURSIVE SortedByPriority(_)
SortedByPriority(queue) ==
    IF queue = <<>> THEN <<>>
    ELSE InsertByPriority(SortedByPriority(SubSeq(queue, 1, Len(queue) - 1)),
                          queue[Len(queue)])

sortQueue(queue) ==
    LET sorted == SortedByPriority(queue)
    IN IF Len(sorted) > maxQueueSize
         THEN SubSeq(sorted, 1, maxQueueSize)
         ELSE sorted

\* the loop shifts a processed key out of the queue without a fetch
NeverSkipped(key, cache) == FALSE

SkipProcessed(key, cache) == key \in cache

\* the loop ends and forgets to say so
LoopExitKeepsFlag(p, others) == [p EXCEPT !.loops = others]

\* the queue is empty: the while loop is left
LoopExit(p, others) == [p EXCEPT !.isProcessing = FALSE, !.loops = others]

\* one loop from its while condition to its next await or to its end;
\* others are the loops that are at an await meanwhile
RECURSIVE WhileQueue(_, _)
WhileQueue(p, others) ==
    IF p.queue = <<>> THEN LoopExit(p, others)
    ELSE LET item == Head(p.queue)
             shifted == [p EXCEPT !.queue = Tail(p.queue)]
         IN IF SkipProcessed(ItemKey(item), p.processedCache)
              THEN WhileQueue(shifted, others)
              ELSE [shifted EXCEPT
                      !.loops = others \o <<[pc |-> "findBook", item |-> item]>>]

processQueue(p) ==
    IF p.isProcessing THEN p
    ELSE WhileQueue([p EXCEPT !.isProcessing = TRUE], p.loops)

\* the place of the item of the queue with this key, 0 if there is none
FindInQueue(queue, key) ==
    LET places == { i \in 1 .. Len(queue) : ItemKey(queue[i]) = key }
    IN IF places = {} THEN 0
       ELSE CHOOSE i \in places : \A j \in places : i <= j

AfterAddToQueue(p, title, author, priority) ==
    LET key == Key(title, author)
        existing == FindInQueue(p.queue, key)
    IN IF key \in p.processedCache THEN p
       ELSE IF existing # 0
         THEN IF priority > p.queue[existing].priority
                THEN [p EXCEPT !.queue =
                        sortQueue([p.queue EXCEPT ![existing].priority = priority])]
                ELSE p
         ELSE LET pushed ==
                    [p EXCEPT !.queue = sortQueue(Append(p.queue,
                        [title |-> title, author |-> author,
                         priority |-> priority]))]
              IN IF ~pushed.isProcessing THEN processQueue(pushed) ELSE pushed

prefetchOnly ==
    <<data, loaded, defaults, shared, disk, now, syncVars, second>>

addToQueue(title, author, priority) ==
    /\ prefetch' = AfterAddToQueue(prefetch, title, author, priority)
    /\ UNCHANGED prefetchOnly

\* the loops without loop i
OtherLoops(loops, i) == SubSeq(loops, 1, i - 1) \o SubSeq(loops, i + 1, Len(loops))

\* findBook has come back, with the book or with an error
FetchDone(i, ok) ==
    /\ i \in 1 .. Len(prefetch.loops)
    /\ prefetch.loops[i].pc = "findBook"
    /\ prefetch' =
          [prefetch EXCEPT
             !.processedCache =
                 IF ok THEN @ \cup { ItemKey(prefetch.loops[i].item) } ELSE @,
             !.loops[i].pc = "delay"]
    /\ UNCHANGED prefetchOnly

\* the delay is over: the loop goes to its while condition
DelayDone(i) ==
    /\ i \in 1 .. Len(prefetch.loops)
    /\ prefetch.loops[i].pc = "delay"
    /\ prefetch' = WhileQueue(prefetch, OtherLoops(prefetch.loops, i))
    /\ UNCHANGED prefetchOnly

AddToQueueStep ==
    \E title \in PrefetchTitles, author \in PrefetchAuthors,
       priority \in PrefetchPriorities : addToQueue(title, author, priority)

FetchStep == \E i \in 1 .. Len(prefetch.loops), ok \in BOOLEAN : FetchDone(i, ok)

DelayStep == \E i \in 1 .. Len(prefetch.loops) : DelayDone(i)

NextPrefetch ==
    \/ AddToQueueStep
    \/ FetchStep
    \/ DelayStep

SpecPrefetch == Init /\ [][NextPrefetch]_vars

\* every fetch and every delay comes to its end
SpecPrefetchFair == SpecPrefetch /\ WF_vars(FetchStep) /\ WF_vars(DelayStep)

(* ----------- the streak over days, the clock read once a day ----------- *)
MaxStreakDay == 4
MaxStreakDelivered == 2

\* a sync of an empty library, or of the one book
StreakBatches == { <<>>, <<"B1">> }
StreakObservations(t) ==
    { [read_percent |-> rp, percent |-> "", read_status |-> "reading", mtime |-> m] :
        rp \in {35, 70}, m \in {NoMtime, t - TicksPerDay} }

NextStreak ==
    \/ Tick(TicksPerDay, MaxStreakDay * TicksPerDay)
    \/ \E books \in StreakBatches :
          delivered + Len(books) <= MaxStreakDelivered /\ StartSync(books)
    \/ \E book \in StreakObservations(now) : SyncBook(book)
    \/ SyncHasReadToday
    \/ /\ EnsureLoaded.streaks.current < MaxStreakDay
       /\ \E yesterday \in yesterdayStrs : SyncUpdateStreaksAt(yesterday)
    \/ SyncUpdateLastSync
    \/ SyncSave(TRUE)
    \/ clearActivities(TRUE)
    \/ resetStreaks(TRUE)
    \/ resetAll(TRUE)

SpecStreak == Init /\ [][NextStreak]_vars

(* ---------------------- the activity list at its cap ------------------- *)
PrefillCount == 99
MaxCapDelivered == 2

\* what the cloud says of book B1 at the k-th sync: one percent further
PrefillObservation(k) ==
    [read_percent |-> k, percent |-> "", read_status |-> "reading",
     mtime |-> NoMtime]

\* the store d after the syncs from .. to of book B1, one after the other:
\* the first half of them, and on the store they leave the second half
RECURSIVE Replay(_, _, _)
Replay(d, from, to) ==
    IF from > to THEN d
    ELSE IF from = to THEN AddSnapshot(d, "B1", PrefillObservation(from)).data
    ELSE LET mid == (from + to) \div 2
         IN CHOOSE after \in { Replay(half, mid + 1, to) :
                                 half \in { Replay(d, from, mid) } } : TRUE

\* the store after PrefillCount syncs of book B1, read one percent further
\* at each: a 'started' activity and then 'progress' activities
Prefilled == Replay(DEFAULT_DATA, 1, PrefillCount)

InitCap ==
    /\ now = TicksPerDay
    /\ data = [Prefilled EXCEPT
                 !.streaks = [current |-> 1, longest |-> 1, lastReadDate |-> DateOf(now)],
                 !.lastSync = now]
    /\ loaded = TRUE
    /\ defaults = DEFAULT_DATA
    /\ shared = {}
    /\ disk = <<Stringify(data)>>
    /\ syncPc = "idle"
    /\ syncBooks = <<>>
    /\ syncActs = <<>>
    /\ hasReadToday = FALSE
    /\ delivered = 0
    /\ second = NoSecond
    /\ prefetch = NewPrefetchService
    /\ call = NoCall

CapObservations(t) ==
    { [read_percent |-> rp, percent |-> "", read_status |-> "reading", mtime |-> m] :
        rp \in {35, 100}, m \in {NoMtime, t - TicksPerDay} }

NextCap ==
    \/ Tick(1, TicksPerDay + MaxTicks)
    \/ \E books \in Batches : delivered + Len(books) <= MaxCapDelivered /\ StartSync(books)
    \/ \E book \in CapObservations(now) : SyncBook(book)
    \/ SyncHasReadToday
    \/ SyncUpdateStreaks
    \/ SyncUpdateLastSync
    \/ SyncSave(TRUE)
    \/ clearSnapshots(TRUE)

SpecCap == InitCap /\ [][NextCap]_vars

(* ------------------------------ the claims ----------------------------- *)
\* the indexes of the snapshots of d stored at (bookId, date)
SnapshotIndexes(d, bookId, date) ==
    {i \in DOMAIN d.snapshots :
        d.snapshots[i].bookId = bookId /\ d.snapshots[i].date = date}

\* the snapshots of the book that no other snapshot of the book is newer than
LatestSnapshots(d, bookId) ==
    {d.snapshots[i] : i \in
        {i \in DOMAIN d.snapshots :
            /\ d.snapshots[i].bookId = bookId
            /\ \A j \in DOMAIN d.snapshots :
                  d.snapshots[j].bookId = bookId
                  => d.snapshots[j].timestamp <= d.snapshots[i].timestamp}}

\* the snapshot an addSnapshot call for the book is to store
CallSnapshot(bookId, book) ==
    [date |-> DateOf(OccurredTimestamp(book)), bookId |-> bookId,
     progress |-> Progress(book), status |-> Status(book),
     timestamp |-> OccurredTimestamp(book)]

\* the step stored the call's snapshot at its (bookId, date)
SnapshotStored(bookId, book) ==
    LET c == CallSnapshot(bookId, book)
    IN  \E i \in DOMAIN data'.snapshots :
          /\ SnapshotIndexes(data', bookId, c.date) = {i}
          /\ data'.snapshots[i] = c

\* C1: the snapshot list never holds two snapshots of one (bookId, date);
\* after an addSnapshot call the snapshot at the call's key is the call's
\* (its progress, status and timestamp), and the snapshots at the other
\* keys are the ones that were there
C1_SnapshotKeyLastWriteWins ==
    [][ /\ \A i, j \in DOMAIN data'.snapshots :
              ( data'.snapshots[i].bookId = data'.snapshots[j].bookId
                /\ data'.snapshots[i].date = data'.snapshots[j].date ) => i = j
        /\ \A book \in Observations(now) :
              SyncBook(book) =>
                LET b == Head(syncBooks)
                    c == CallSnapshot(b, book)
                    others(d) == {s \in {d.snapshots[i] : i \in DOMAIN d.snapshots} :
                                    ~(s.bookId = b /\ s.date = c.date)}
                IN  /\ SnapshotStored(b, book)
                    /\ others(data') = others(EnsureLoaded)
      ]_vars

\* two calls wrote the one key of B1: a 'started' and a 'progress' activity
\* of one day, and a single snapshot carrying the second call's progress
C1_Witness ==
    /\ Len(data.snapshots) = 1
    /\ Len(data.activities) = 2
    /\ data.activities[1].type = "started"
    /\ data.activities[2].type = "progress"
    /\ data.activities[1].date = data.snapshots[1].date
    /\ data.activities[2].date = data.snapshots[1].date
    /\ data.activities[2].timestamp > data.activities[1].timestamp
    /\ data.snapshots[1].timestamp = data.activities[2].timestamp
    /\ data.snapshots[1].progress = data.activities[2].newProgress

\* C2: an addSnapshot call whose progress is not above the progress of the
\* book's snapshot with the greatest timestamp returns no activity and
\* leaves the activity list as it was, and its snapshot is stored
C2_NoActivityWithoutIncrease ==
    [][ \A book \in BookObservations(now) :
          ( /\ SyncBook(book)
            /\ \E s \in LatestSnapshots(EnsureLoaded, Head(syncBooks)) :
                  s.progress >= Progress(book) )
          => /\ syncActs' = syncActs
             /\ data'.activities = EnsureLoaded.activities
             /\ SnapshotStored(Head(syncBooks), book)
      ]_vars

\* a sync delivered B1 at 35% with yesterday's mtime after the store held
\* it at 70% today: the snapshot was pushed and no activity was returned
C2_Witness ==
    /\ syncPc = "books"
    /\ syncActs = <<>>
    /\ Len(data.snapshots) = 2
    /\ data.snapshots[1].bookId = data.snapshots[2].bookId
    /\ data.snapshots[1].progress = 70
    /\ data.snapshots[2].progress = 35
    /\ data.snapshots[2].timestamp < data.snapshots[1].timestamp
    /\ Len(data.activities) = 1
    /\ data.activities[1].newProgress = 70

\* C3: an addSnapshot call for a book without a snapshot returns a
\* 'started' activity carrying the observed progress when that progress is
\* above 0 and no activity when it is 0; the snapshot is stored either way
C3_FirstSnapshotStartsAboveZero ==
    [][ \A book \in Observations(now) :
          ( /\ SyncBook(book)
            /\ \A i \in DOMAIN EnsureLoaded.snapshots :
                  EnsureLoaded.snapshots[i].bookId # Head(syncBooks) )
          => LET b == Head(syncBooks)
                 c == CallSnapshot(b, book)
                 started == [date |-> c.date, bookId |-> b, type |-> "started",
                             progressDelta |-> Undefined, newProgress |-> c.progress,
                             timestamp |-> c.timestamp]
             IN  /\ SnapshotStored(b, book)
                 /\ c.progress > 0 =>
                       /\ syncActs' = Append(syncActs, started)
                       /\ data'.activities[Len(data'.activities)] = started
                 /\ c.progress = 0 =>
                       /\ syncActs' = syncActs
                       /\ data'.activities = EnsureLoaded.activities
      ]_vars

\* the first sync of a book at 35%: one snapshot, one 'started' activity
C3_Witness ==
    /\ syncPc = "books"
    /\ Len(data.snapshots) = 1
    /\ data.snapshots[1].progress = 35
    /\ Len(syncActs) = 1
    /\ syncActs[1].type = "started"
    /\ syncActs[1].newProgress = 35
    /\ data.activities = syncActs

\* C4: an addSnapshot call whose progress is above the progress of the
\* book's snapshot with the greatest timestamp, whatever its date, returns
\* a 'finished' activity when the new status is "read" and that snapshot's
\* is not, a 'progress' activity otherwise, with the difference as delta
C4_IncreaseClassification ==
    [][ \A book \in BookObservations(now) :
          SyncBook(book) =>
            \A s \in LatestSnapshots(EnsureLoaded, Head(syncBooks)) :
              Progress(book) > s.progress
              => LET c == CallSnapshot(Head(syncBooks), book)
                     a == [date |-> c.date, bookId |-> c.bookId,
                           type |-> IF c.status = "read" /\ s.status # "read"
                                    THEN "finished" ELSE "progress",
                           progressDelta |-> c.progress - s.progress,
                           newProgress |-> c.progress,
                           timestamp |-> c.timestamp]
                 IN  /\ syncActs' = Append(syncActs, a)
                     /\ data'.activities[Len(data'.activities)] = a
      ]_vars

\* a book held at 35% today is delivered as read at 70% with yesterday's
\* mtime: 'finished' with delta 35 against the snapshot of the other date
C4_Witness ==
    /\ syncPc = "books"
    /\ Len(data.snapshots) = 2
    /\ data.snapshots[1].bookId = data.snapshots[2].bookId
    /\ data.snapshots[1].progress = 35
    /\ data.snapshots[1].status = "reading"
    /\ data.snapshots[2].progress = 70
    /\ data.snapshots[2].timestamp < data.snapshots[1].timestamp
    /\ Len(syncActs) = 1
    /\ syncActs[1].type = "finished"
    /\ syncActs[1].progressDelta = 35
    /\ syncActs[1].date = data.snapshots[2].date

C6_ProgressAppended ==
    [][ \A book \in BookObservations(now) :
          ( /\ SyncBook(book)
            /\ Len(syncActs') = Len(syncActs) + 1
            /\ syncActs'[Len(syncActs')].type = "progress"
            /\ Len(EnsureLoaded.activities) < ActivityCap )
          => data'.activities =
                Append(EnsureLoaded.activities, syncActs'[Len(syncActs')])
      ]_vars

\* the running sync returned a 'progress' activity of a book and a day the
\* list already held a 'progress' activity of, from an earlier sync; both
\* are in the list, the new one last
C6_Witness ==
    /\ syncPc = "books"
    /\ Len(syncActs) = 1
    /\ syncActs[1].type = "progress"
    /\ data.activities # <<>>
    /\ data.activities[Len(data.activities)] = syncActs[1]
    /\ \E i \in 1..(Len(data.activities) - 1) :
          /\ data.activities[i].type = "progress"
          /\ data.activities[i].bookId = syncActs[1].bookId
          /\ data.activities[i].date = syncActs[1].date
          /\ data.activities[i].timestamp # syncActs[1].timestamp

\* the activities of the list that the call's activity does not replace:
\* all of them for 'progress', for 'started' and 'finished' all but those
\* of the activity's (bookId, date, type)
KeptBefore(acts, a) ==
    SelectSeq(acts, LAMBDA x :
        a.type = "progress"
        \/ ~(x.bookId = a.bookId /\ x.date = a.date /\ x.type = a.type))

\* C7: after an addSnapshot call that returned an activity the list holds
\* at most 100 entries: the last 100, in their order, of the list the
\* call appended its activity to
C7_ActivityCapKeepsLast ==
    [][ \A book \in CapObservations(now) :
          ( SyncBook(book) /\ Len(syncActs') = Len(syncActs) + 1 )
          => LET a == syncActs'[Len(syncActs')]
                 full == Append(KeptBefore(EnsureLoaded.activities, a), a)
                 n == Len(data'.activities)
             IN  /\ n <= 100
                 /\ n = IF Len(full) > 100 THEN 100 ELSE Len(full)
                 /\ data'.activities = SubSeq(full, Len(full) - n + 1, Len(full))
      ]_vars

\* the list is full and its first entry, the 'started' activity, was
\* dropped, although the entry appended last has an older timestamp than
\* the oldest entry kept
C7_Witness ==
    /\ Len(data.activities) = 100
    /\ data.activities[1].type = "progress"
    /\ data.activities[1].newProgress > 1
    /\ data.activities[100].timestamp < data.activities[1].timestamp

\* C8: updateStreaks(true) adds 1 to current when lastReadDate is
\* yesterday and sets current to 1 when lastReadDate is empty or two or
\* more days back; in both cases lastReadDate becomes today and longest
\* the greater of longest and the new current
C8_StreakAfterRead ==
    [][ ( hasReadToday /\ \E yesterday \in yesterdayStrs : SyncUpdateStreaksAt(yesterday) )
        => LET old == EnsureLoaded.streaks
               new == data'.streaks
               today == DateOf(now)
               continued == old.lastReadDate = today - 1
               restarted == old.lastReadDate = EmptyString
                            \/ old.lastReadDate <= today - 2
           IN  /\ continued => new.current = old.current + 1
               /\ restarted => new.current = 1
               /\ (continued \/ restarted) =>
                     /\ new.lastReadDate = today
                     /\ new.longest >= old.longest
                     /\ new.longest >= new.current
                     /\ new.longest \in {old.longest, new.current}
      ]_vars

\* C9: updateStreaks(false) sets current to 0 when lastReadDate is neither
\* today nor yesterday and changes nothing else; when lastReadDate is
\* today or yesterday it changes nothing at all
C9_StreakAfterNoRead ==
    [][ ( ~hasReadToday /\ \E yesterday \in yesterdayStrs : SyncUpdateStreaksAt(yesterday) )
        => LET old == EnsureLoaded.streaks
               new == data'.streaks
               today == DateOf(now)
               lapsed == old.lastReadDate # today /\ old.lastReadDate # today - 1
           IN  /\ lapsed => new.current = 0
               /\ ~lapsed => new = old
               /\ new.lastReadDate = old.lastReadDate
               /\ new.longest = old.longest
      ]_vars

\* C10: the hasReadToday that onSync passes to updateStreaks is true
\* exactly when the sync returned an activity dated today or the store
\* holds an activity dated today
C10_HasReadTodayMeansToday ==
    [][ SyncHasReadToday
        => ( hasReadToday' <=>
               \/ \E i \in DOMAIN syncActs : syncActs[i].date = DateOf(now)
               \/ \E i \in DOMAIN EnsureLoaded.activities :
                     EnsureLoaded.activities[i].date = DateOf(now) )
      ]_vars

\* C11: a book whose addSnapshot throws is skipped and nothing else: the
\* store, the activities returned so far and the vault file stay as they
\* were and the loop goes on with the remaining books; the sync then runs
\* on to the streak update, the lastSync update and the save, and returns
C11_ThrowSkipsOneBook ==
    /\ [][ \A book \in ThrowObservations(now) :
              SyncBookThrows(book)
              => /\ data' = EnsureLoaded
                 /\ syncActs' = syncActs
                 /\ syncBooks' = Tail(syncBooks)
                 /\ syncPc' = "books"
                 /\ disk' = disk
          ]_vars
    /\ (syncPc = "books") ~> (syncPc = "streaks")
    /\ (syncPc = "streaks") ~> (syncPc = "lastSync")
    /\ (syncPc = "lastSync") ~> (syncPc = "save")
    /\ (syncPc = "save") ~> (syncPc = "idle")

\* the first sync delivered two books and is about to save: one threw and
\* left no snapshot, the other was recorded as 'started', the streak was
\* updated and lastSync set
C11_Witness ==
    /\ syncPc = "save"
    /\ disk = <<>>
    /\ delivered = 2
    /\ Len(data.snapshots) = 1
    /\ Len(syncActs) = 1
    /\ syncActs[1].type = "started"
    /\ data.activities = syncActs
    /\ data.streaks.current = 1
    /\ data.lastSync = now

\* C12: a load() that finds no file, or content that does not parse,
\* leaves the empty default in memory: no snapshots, no activities,
\* streaks 0/0/'', lastSync '' and no page counts
C12_FailedLoadGivesEmptyDefault ==
    [][ ( Load /\ ~Parses(disk) ) => data' = DEFAULT_DATA ]_vars

\* C13: a save() whose vault write fails returns normally and leaves the
\* store in memory as it was; the onSync that called it returns as after a
\* successful save; the file changes only while a save() call of a sync
\* is running, so nothing writes the failed content later
C13_SaveFailureIsSilent ==
    [][ /\ SyncSave(FALSE)
           => /\ data' = data
              /\ loaded' = loaded
              /\ disk' = disk
              /\ syncPc' = "idle"
              /\ syncActs' = <<>>
        /\ disk' # disk => ( syncPc = "save" /\ syncPc' = "idle" )
      ]_vars

\* the first sync recorded a 'started' activity and set lastSync; its save
\* failed, there is no file, and onSync has returned
C13_Witness ==
    /\ syncPc = "idle"
    /\ delivered = 1
    /\ disk = <<>>
    /\ loaded
    /\ Len(data.activities) = 1
    /\ data.streaks.current = 1
    /\ data.lastSync # EmptyString

\* C14: on a loaded store a call of getLatestSnapshots,
\* getRecentActivities, getReadingHistory, getTodayActivity, getStreaks,
\* getBooksFinishedInYear, getEstimatedPagesToday, getRecentActivityFeed
\* or generateReadingAnalytics leaves snapshots, activities with their
\* order, streaks, lastSync and bookPageCounts as they were
C14_ReadsLeaveStore ==
    [][ ( loaded /\ ReadStep )
        => /\ data' = data
           /\ defaults' = defaults
           /\ disk' = disk
      ]_vars

\* getRecentActivities returned the two activities newest first while the
\* store keeps them in the order they were appended
C14_Witness ==
    /\ loaded
    /\ call.op = "getRecentActivities"
    /\ Len(data.activities) = 2
    /\ data.activities[1].timestamp < data.activities[2].timestamp
    /\ call.result[1] = <<data.activities[2], data.activities[1]>>

\* C15: addSnapshot records an observation without read_percent whose
\* percent string is not a number as a snapshot of progress 0, and an
\* observation without status with status 'unknown'
C15_MalformedRecordedAsZero ==
    [][ \A book \in MalformedObservations(now) :
          SyncBook(book)
          => LET c == CallSnapshot(Head(syncBooks), book)
             IN  \E i \in DOMAIN data'.snapshots :
                   /\ data'.snapshots[i].bookId = c.bookId
                   /\ data'.snapshots[i].date = c.date
                   /\ data'.snapshots[i].status =
                         IF book.read_status = "" THEN "unknown" ELSE book.read_status
                   /\ data'.snapshots[i].progress =
                         IF book.read_percent # Undefined THEN book.read_percent
                         ELSE IF book.percent = "abc" THEN 0
                         ELSE data'.snapshots[i].progress
      ]_vars

\* the activity the sync of day k of the four-day sequence is to return
ScenarioActivity(k, timestamp) ==
    CASE k = 1 -> <<>>
      [] k = 2 -> << [date |-> 2, bookId |-> "B1", type |-> "started",
                      progressDelta |-> Undefined, newProgress |-> 35,
                      timestamp |-> timestamp] >>
      [] k = 3 -> << [date |-> 3, bookId |-> "B1", type |-> "progress",
                      progressDelta |-> 35, newProgress |-> 70,
                      timestamp |-> timestamp] >>
      [] k = 4 -> << [date |-> 4, bookId |-> "B1", type |-> "finished",
                      progressDelta |-> 30, newProgress |-> 100,
                      timestamp |-> timestamp] >>

\* C16: from the empty store, B1 at 0 on day 1, 35 on day 2, 70 on day 3
\* and 100 with status "read" on day 4 yields no activity, 'started' with
\* newProgress 35, 'progress' with delta 35 and 'finished' with delta 30;
\* after the fourth sync getBooksFinishedInYear of the year returns 1
C16_FourDayScenario ==
    [][ /\ \A k \in DOMAIN ScenarioProgress :
              \A book \in ScenarioObservations(k, now) :
                ( delivered = k /\ DateOf(now) = k /\ SyncBook(book) )
                => syncActs' = ScenarioActivity(k, OccurredTimestamp(book))
        /\ ( /\ CallGetBooksFinishedInYear(YearOf(DateOf(now)))
             /\ delivered = Len(ScenarioProgress)
             /\ syncBooks = <<>> )
           => call'.result = <<1>>
      ]_vars

\* the page count the estimate is to use for a book: its entry in
\* bookPageCounts, else the global default
ResolvedPageCount(d, bookId) ==
    IF bookId \in DOMAIN d.bookPageCounts THEN d.bookPageCounts[bookId]
    ELSE estimatedPagesPerBook

\* x / 100 rounded to the nearest integer
RoundHundredth(x) == (x + 50) \div 100

\* the pages of one activity by type: 'progress' by its delta, 'started'
\* below 100% by its newProgress, nothing otherwise
PagesByType(d, a) ==
    CASE a.type = "progress" ->
            RoundHundredth(a.progressDelta * ResolvedPageCount(d, a.bookId))
      [] a.type = "started" /\ a.newProgress < 100 ->
            RoundHundredth(a.newProgress * ResolvedPageCount(d, a.bookId))
      [] OTHER -> 0

RECURSIVE SumPagesByType(_, _)
SumPagesByType(d, acts) ==
    IF acts = <<>> THEN 0
    ELSE PagesByType(d, Head(acts)) + SumPagesByType(d, Tail(acts))

\* C17: getEstimatedPagesToday returns the sum over the activities dated
\* today of round(progressDelta/100 * pageCount) for 'progress' and of
\* round(newProgress/100 * pageCount) for 'started' below 100%; 'started'
\* at 100% and other activities add nothing
C17_PagesTodayByType ==
    [][ CallGetEstimatedPagesToday
        => call'.result =
             << SumPagesByType(EnsureLoaded,
                    SelectSeq(EnsureLoaded.activities,
                              LAMBDA a : a.date = DateOf(now))) >>
      ]_vars

\* C18: a 'progress' activity dated today adds round(delta/100 * pages)
\* to the estimated pages of today, pages being the bookPageCounts entry
\* of its book when one is set and the global default otherwise: 100 for
\* a delta of 25 with an entry of 400
C18_PageCountOverride ==
    [][ \A book \in PagesObservations(now) :
          ( /\ SyncBook(book)
            /\ Len(syncActs') = Len(syncActs) + 1
            /\ syncActs'[Len(syncActs')].type = "progress"
            /\ syncActs'[Len(syncActs')].date = DateOf(now) )
          => LET a == syncActs'[Len(syncActs')]
             IN  getEstimatedPagesToday(data') =
                   getEstimatedPagesToday(EnsureLoaded)
                   + RoundHundredth(a.progressDelta
                                    * ResolvedPageCount(EnsureLoaded, a.bookId))
      ]_vars

\* B1 has a page count of 400; it was started at 10% today and read on to
\* 35%: the 'progress' activity of delta 25 added 100 to the 40 pages of
\* the 'started' activity, and getEstimatedPagesToday returned 140
C18_Witness ==
    /\ call.op = "getEstimatedPagesToday"
    /\ call.result = <<140>>
    /\ "B1" \in DOMAIN data.bookPageCounts
    /\ data.bookPageCounts["B1"] = 400
    /\ Len(data.activities) = 2
    /\ data.activities[1].type = "started"
    /\ data.activities[2].type = "progress"
    /\ data.activities[2].progressDelta = 25
    /\ data.activities[2].date = DateOf(now)

\* C19: trendPercent is (last30 - prev30) / prev30 * 100 when the total of
\* the previous 30 days is positive, 100 when that total is 0 and the
\* total of the last 30 days is positive, and 0 when both are 0
C19_TrendPercent ==
    (call.op = "trendPercent" /\ call.result # <<>>)
    => LET last30 == call.args[1]
           prev30 == call.args[2]
           trend  == call.result[1]
       IN  /\ trend.den > 0
           /\ (prev30 > 0) => trend.num * prev30 = (last30 - prev30) * 100 * trend.den
           /\ (prev30 = 0 /\ last30 > 0) => trend.num = 100 * trend.den
           /\ (prev30 = 0 /\ last30 = 0) => trend.num = 0

\* no pages in the previous 30 days and 40 in the last 30: the trend is 100
C19_Witness ==
    /\ call.op = "trendPercent"
    /\ call.args = <<40, 0>>
    /\ call.result = << [num |-> 100, den |-> 1] >>

\* the bucket of a page total: 0; 1 to 14; 15 to 29; 30 to 49; 50 or more
HeatBucket(pages) ==
    CASE pages = 0 -> 0
      [] pages >= 1 /\ pages <= 14 -> 1
      [] pages >= 15 /\ pages <= 29 -> 2
      [] pages >= 30 /\ pages <= 49 -> 3
      [] OTHER -> 4

\* C20: the colour of a day in the heatmap is a function of its page total
\* with five buckets, 0 / 1 to 14 / 15 to 29 / 30 to 49 / 50 or more: two
\* totals get the same colour exactly when they lie in the same bucket, so
\* 14 and 15 differ, 30 and 49 agree, and 50 is in the top bucket
C20_HeatmapBuckets ==
    (call.op = "drawHeatmap" /\ call.result # <<>>)
    => /\ \A other \in 0 .. MaxHeatPages :
             (heatmapColor(other) = call.result[1])
               <=> (HeatBucket(other) = HeatBucket(call.args[1]))
       /\ call.args[1] = 14 => call.result[1] # heatmapColor(15)
       /\ call.args[1] = 30 => call.result[1] = heatmapColor(49)
       /\ call.args[1] = 50 => call.result[1] = heatmapColor(MaxHeatPages)

\* the box of a day with 49 pages was drawn in the colour of 30 to 49
C20_Witness ==
    /\ call.op = "drawHeatmap"
    /\ call.args = <<49>>
    /\ call.result = << "#4ade80" >>

\* the order of the steps of one onSync
SyncOrder ==
    { <<"idle", "books">>, <<"books", "streaks">>, <<"streaks", "lastSync">>,
      <<"lastSync", "save">>, <<"save", "idle">> }

\* C21: one onSync passes once through updateStreaks, then updateLastSync,
\* then save, in this order and each once; the streak state is written
\* only by the updateStreaks step, which is taken when addSnapshot has
\* returned or thrown for every book of the batch; lastSync is written
\* only by the step after it and the file only by the save that ends the
\* call; and every onSync that began comes to that save and returns
C21_StreaksOnceAfterAllBooks ==
    /\ [][ /\ syncPc' # syncPc => <<syncPc, syncPc'>> \in SyncOrder
           /\ data'.streaks # data.streaks
                => (syncPc = "streaks" /\ syncPc' = "lastSync" /\ syncBooks = <<>>)
           /\ SyncUpdateStreaks => syncBooks = <<>>
           /\ data'.lastSync # data.lastSync
                => (syncPc = "lastSync" /\ syncPc' = "save")
           /\ disk' # disk => (syncPc = "save" /\ syncPc' = "idle")
         ]_vars
    /\ (syncPc = "books") ~> (syncPc = "save" /\ syncBooks = <<>>)
    /\ (syncPc = "save") ~> (syncPc = "idle" /\ disk # <<>>)

\* a sync of two books has returned: both books have a snapshot, the
\* streak counts the day, lastSync is set and the file holds the store
C21_Witness ==
    /\ syncPc = "idle"
    /\ delivered = 2
    /\ Len(data.snapshots) = 2
    /\ data.streaks.current = 1
    /\ data.streaks.lastReadDate = DateOf(now)
    /\ data.lastSync = now
    /\ disk = <<Stringify(data)>>

\* C22: once lastReadDate is today, an updateStreaks on the same day,
\* with or without a read, leaves current, longest and lastReadDate as
\* they are, so that a day is counted once however often it is synced
C22_StreakCountsDayOnce ==
    [][ ( /\ EnsureLoaded.streaks.lastReadDate = DateOf(now)
          /\ \E yesterday \in yesterdayStrs : SyncUpdateStreaksAt(yesterday) )
        => data'.streaks = EnsureLoaded.streaks
      ]_vars

\* a document merged key by key over the empty defaults
MergedOverEmptyDefaults(doc) ==
    [f \in Fields |-> IF f \in DOMAIN doc THEN doc[f] ELSE DEFAULT_DATA[f]]

\* C23: a load() that reads a document leaves in memory that document
\* merged key by key over the defaults, a key the document lacks taking
\* the empty default value, whatever the store held before: changes that
\* were not saved are gone, and a second load of the same document gives
\* what the first gave
C23_LoadReplacesStore ==
    [][ ( Load /\ Parses(disk) ) => data' = MergedOverEmptyDefaults(disk[1]) ]_vars

\* the activities of a log with a date
OnDate(acts, date) == SelectSeq(acts, LAMBDA a : a.date = date)

\* the sum, over the 'progress' activities of a list, of the pages of
\* each, rounded one by one
RECURSIVE SumRoundedProgress(_, _)
SumRoundedProgress(d, acts) ==
    IF acts = <<>> THEN 0
    ELSE (IF Head(acts).type = "progress"
          THEN RoundHundredth(Head(acts).progressDelta
                              * ResolvedPageCount(d, Head(acts).bookId))
          ELSE 0)
         + SumRoundedProgress(d, Tail(acts))

\* C24: dailyPages[date] of generateReadingAnalytics is, for every date,
\* the sum of round(progressDelta/100 * pageCount) over the 'progress'
\* activities of the log with that date, each rounded by itself; 'started'
\* and 'finished' activities add nothing, a date without pages has no
\* entry, and two 'progress' activities of one book and day are both added
C24_DailyPagesSumProgress ==
    [][ CallGenerateReadingAnalytics
        => LET log == EnsureLoaded.activities
               pages == call'.result[1].dailyPages
           IN  \A date \in 0 .. DateOf(now) :
                  LET sum == SumRoundedProgress(EnsureLoaded, OnDate(log, date))
                  IN  IF date \in DOMAIN pages THEN pages[date] = sum ELSE sum = 0
      ]_vars

\* B1 was started at 10% and read on to 35% and to 60% on one day, B1
\* having 300 pages: the day has 75 + 75 pages
C24_Witness ==
    /\ call.op = "generateReadingAnalytics"
    /\ Len(data.activities) = 3
    /\ \A i \in 1..3 : data.activities[i].bookId = "B1"
                        /\ data.activities[i].date = DateOf(now)
    /\ data.activities[2].type = "progress"
    /\ data.activities[3].type = "progress"
    /\ data.bookPageCounts = [b \in {} |-> 0]
    /\ call.result[1].dailyPages = [date \in {DateOf(now)} |-> 150]

\* finished > progress > started
TypePriority(type) ==
    CASE type = "finished" -> 3
      [] type = "progress" -> 2
      [] OTHER -> 1

RECURSIVE SumDeltas(_)
SumDeltas(acts) ==
    IF acts = <<>> THEN 0
    ELSE OrZero(Head(acts).progressDelta) + SumDeltas(Tail(acts))

\* C25: dailyBooks[date] of generateReadingAnalytics has one entry for
\* each book with an activity on that date and no other; the progressDelta
\* of the entry is the sum of the deltas of the activities of that book
\* and date, and its type the one of highest priority among theirs, in
\* the order finished > progress > started
C25_DailyBooksOneEntryPerBook ==
    [][ CallGenerateReadingAnalytics
        => LET log == EnsureLoaded.activities
               books == call'.result[1].dailyBooks
           IN  /\ DOMAIN books = { log[i].date : i \in DOMAIN log }
               /\ \A date \in DOMAIN books :
                     LET entries == books[date]
                         ofDay == OnDate(log, date)
                     IN  /\ { entries[i].bookId : i \in DOMAIN entries }
                              = { ofDay[i].bookId : i \in DOMAIN ofDay }
                         /\ \A i, j \in DOMAIN entries :
                               entries[i].bookId = entries[j].bookId => i = j
                         /\ \A i \in DOMAIN entries :
                               LET ofBook == SelectSeq(ofDay,
                                     LAMBDA a : a.bookId = entries[i].bookId)
                               IN  /\ OrZero(entries[i].progressDelta) = SumDeltas(ofBook)
                                   /\ \E k \in DOMAIN ofBook :
                                         ofBook[k].type = entries[i].type
                                   /\ \A k \in DOMAIN ofBook :
                                         TypePriority(ofBook[k].type)
                                           <= TypePriority(entries[i].type)
      ]_vars

\* C26: addSnapshot called once more with the observation and the
\* occurredAt of the call that has just returned gives no activity and
\* leaves snapshots, activities and streaks as that call left them
C26_AddSnapshotIdempotent ==
    [][ \A book \in BookObservations(now) :
          SyncBook(book)
          => AddSnapshot(data', Head(syncBooks), book)
               = [data |-> data', activity |-> <<>>]
      ]_vars

\* C27: the streak record the sync cycles, resetStreaks and resetAll make
\* of the default one always has longest >= current >= 0 and a
\* lastReadDate when current is above 0, and longest goes down in no
\* step but a resetStreaks or a resetAll
C27_StreakRecordConsistent ==
    /\ [] ( /\ data.streaks.current >= 0
            /\ data.streaks.longest >= data.streaks.current
            /\ data.streaks.current > 0 => data.streaks.lastReadDate # EmptyString )
    /\ [][ data'.streaks.longest < data.streaks.longest
             => (resetStreaks(TRUE) \/ resetAll(TRUE)) ]_vars

\* a streak of two days has lapsed and a new one has begun: current is 1
\* below a longest of 2
C27_Witness ==
    /\ syncPc = "lastSync"
    /\ data.streaks.current = 1
    /\ data.streaks.longest = 2
    /\ data.streaks.lastReadDate = DateOf(now)

\* the books of a batch recorded one after the other by one call: the
\* store and the activities returned
RECURSIVE AddSnapshots(_, _, _)
AddSnapshots(d, acts, batch) ==
    IF batch = <<>> THEN [data |-> d, acts |-> acts]
    ELSE LET r == AddSnapshot(d, Head(batch).bookId, Head(batch).book)
         IN  AddSnapshots(r.data, acts \o r.activity, Tail(batch))

\* the store one onSync call alone makes of the store d
SingleCycle(d, batch) ==
    LET r == AddSnapshots(d, <<>>, batch)
    IN  [r.data EXCEPT
           !.streaks = UpdateStreaks(@, HasReadToday(r.acts, r.data), yesterdayStr),
           !.lastSync = now]

\* C28: when two onSync calls with the same books, progress, status and
\* timestamps have run side by side on a loaded store and both have
\* returned, the activities, the snapshots and the streak state are those
\* one call alone would have left: every activity is there once
C28_OverlapAsSingleCycle ==
    (second.batch # <<>> /\ syncPc = "idle" /\ second.pc = "idle")
    => LET single == SingleCycle(second.before[1], second.batch)
       IN  /\ data.activities = single.activities
           /\ data.snapshots = single.snapshots
           /\ data.streaks = single.streaks

\* the keys of the items of the queue, in their order
QueueKeys == [ i \in 1 .. Len(prefetch.queue) |-> ItemKey(prefetch.queue[i]) ]

\* C29: whatever addToQueue calls come between the awaits of the loop, at
\* most one processQueue loop runs, no two items of the queue have the same
\* title-author key, the queue is never longer than maxQueueSize, and no
\* findBook is under way for a key of processedCache
C29_OneLoopNoDuplicates ==
    /\ Len(prefetch.loops) <= 1
    /\ prefetch.isProcessing <=> prefetch.loops # <<>>
    /\ \A i, j \in 1 .. Len(prefetch.queue) : QueueKeys[i] = QueueKeys[j] => i = j
    /\ Len(prefetch.queue) <= maxQueueSize
    /\ \A i \in 1 .. Len(prefetch.loops) :
          prefetch.loops[i].pc = "findBook"
            => ItemKey(prefetch.loops[i].item) \notin prefetch.processedCache

\* the loop fetches a book while the queue is full; one item of the queue
\* was added while its book was being fetched and is in processedCache by
\* now, as is the key that "a"/"b-c" and "a-b"/"c" share
C29_Witness ==
    /\ Len(prefetch.queue) = maxQueueSize
    /\ \E i \in 1 .. Len(prefetch.queue) : QueueKeys[i] \in prefetch.processedCache
    /\ Len(prefetch.loops) = 1
    /\ prefetch.loops[1].pc = "findBook"
    /\ Key("a", "b-c") \in prefetch.processedCache

\* the keys the callers can ask for
PrefetchKeys ==
    { Key(title, author) : title \in PrefetchTitles, author \in PrefetchAuthors }

InQueue(key) == FindInQueue(prefetch.queue, key) # 0

\* findBook is under way for this key
Attempted(p, key) ==
    \E i \in 1 .. Len(p.loops) :
        p.loops[i].pc = "findBook" /\ ItemKey(p.loops[i].item) = key

\* an item leaves the queue in a step of the loop only to be fetched or,
\* its key being in processedCache, to be skipped; any other item that
\* leaves was cut off by sortQueue in addToQueue
RemovedOnlyByLoopOrCap ==
    [][ \A key \in PrefetchKeys :
          (InQueue(key) /\ FindInQueue(prefetch'.queue, key) = 0)
            => \/ Attempted(prefetch', key)
               \/ key \in prefetch'.processedCache
               \/ /\ AddToQueueStep
                  /\ Len(prefetch'.queue) = maxQueueSize ]_vars

\* an addToQueue call has put an item in front of the item of this key
Overtaken(key) ==
    /\ InQueue(key)
    /\ FindInQueue(prefetch'.queue, key) > FindInQueue(prefetch.queue, key)

=============================================================================
